---- MODULE Spec2Model ----
(***************************************************************************)
(* Model of src/app.py: the field normalizers (parse_time,                 *)
(* extract_room_number, extract_last_name, format_time, abbreviate_title,  *)
(* expand_days, is_before_noon), the pipeline of                           *)
(* process_csv_and_generate_doc (load, forward fill, CLOSED filter, row    *)
(* loop, sort, grid, render, return) and the caller's download decision.   *)
(*                                                                         *)
(* Python values are tagged records: [k |-> "nan"], [k |-> "none"],        *)
(* [k |-> "str", s |-> ...], [k |-> "num", n |-> ..., float |-> ...],      *)
(* [k |-> "time", h |-> ..., m |-> ...], [k |-> "int", n |-> ...],         *)
(* [k |-> "bool", b |-> ...], [k |-> "list", items |-> ...] and, for a     *)
(* call that raises, [k |-> "raise", exc |-> ...].  Python strings are     *)
(* TLA+ strings and are processed character by character.                  *)
(***************************************************************************)
EXTENDS Integers, Sequences, FiniteSets, TLC

(***************************************************************************)
(* Python values.                                                          *)
(***************************************************************************)
PyNone == [k |-> "none"]
NaN == [k |-> "nan"]
Str(s) == [k |-> "str", s |-> s]
Num(n, isFloat) == [k |-> "num", n |-> n, float |-> isFloat]
Time(h, m) == [k |-> "time", h |-> h, m |-> m]
PyInt(n) == [k |-> "int", n |-> n]
PyBool(b) == [k |-> "bool", b |-> b]
PyList(items) == [k |-> "list", items |-> items]
Raise(exc) == [k |-> "raise", exc |-> exc]

\* pd.isna(v) on a scalar: true of NaN and of None.
isna(v) == v.k \in {"nan", "none"}

\* v == '' in Python: only the empty string equals ''.
IsEmptyStr(v) == v.k = "str" /\ v.s = ""

(***************************************************************************)
(* Strings, character by character.                                        *)
(***************************************************************************)
CharAt(s, i) == SubSeq(s, i, i)

DropFirst(s, n) == SubSeq(s, n + 1, Len(s))

Digits == "0123456789"

\* Position of the first occurrence of character c in s from position n on,
\* 0 when there is none.
RECURSIVE IndexFrom(_, _, _)
IndexFrom(c, s, n) ==
  IF n > Len(s) THEN 0 ELSE IF CharAt(s, n) = c THEN n ELSE IndexFrom(c, s, n + 1)

IndexIn(c, s) == IndexFrom(c, s, 1)

\* The upper-case form of one character (ASCII letters).
UpperChar(c) ==
  CASE c = "a" -> "A"
    [] c = "b" -> "B"
    [] c = "c" -> "C"
    [] c = "d" -> "D"
    [] c = "e" -> "E"
    [] c = "f" -> "F"
    [] c = "g" -> "G"
    [] c = "h" -> "H"
    [] c = "i" -> "I"
    [] c = "j" -> "J"
    [] c = "k" -> "K"
    [] c = "l" -> "L"
    [] c = "m" -> "M"
    [] c = "n" -> "N"
    [] c = "o" -> "O"
    [] c = "p" -> "P"
    [] c = "q" -> "Q"
    [] c = "r" -> "R"
    [] c = "s" -> "S"
    [] c = "t" -> "T"
    [] c = "u" -> "U"
    [] c = "v" -> "V"
    [] c = "w" -> "W"
    [] c = "x" -> "X"
    [] c = "y" -> "Y"
    [] c = "z" -> "Z"
    [] OTHER -> c

\* The lower-case form of one character (ASCII letters).
LowerChar(c) ==
  CASE c = "A" -> "a"
    [] c = "B" -> "b"
    [] c = "C" -> "c"
    [] c = "D" -> "d"
    [] c = "E" -> "e"
    [] c = "F" -> "f"
    [] c = "G" -> "g"
    [] c = "H" -> "h"
    [] c = "I" -> "i"
    [] c = "J" -> "j"
    [] c = "K" -> "k"
    [] c = "L" -> "l"
    [] c = "M" -> "m"
    [] c = "N" -> "n"
    [] c = "O" -> "o"
    [] c = "P" -> "p"
    [] c = "Q" -> "q"
    [] c = "R" -> "r"
    [] c = "S" -> "s"
    [] c = "T" -> "t"
    [] c = "U" -> "u"
    [] c = "V" -> "v"
    [] c = "W" -> "w"
    [] c = "X" -> "x"
    [] c = "Y" -> "y"
    [] c = "Z" -> "z"
    [] OTHER -> c

\* str.upper()
RECURSIVE upper(_)
upper(s) ==
  IF s = "" THEN "" ELSE UpperChar(CharAt(s, 1)) \o upper(DropFirst(s, 1))

IsSpace(c) == c \in {" ", "\t", "\n"}

IsDigit(c) == IndexIn(c, Digits) > 0

\* Number of leading whitespace characters of s.
RECURSIVE LeadingSpaces(_)
LeadingSpaces(s) ==
  IF s # "" /\ IsSpace(CharAt(s, 1)) THEN 1 + LeadingSpaces(DropFirst(s, 1)) ELSE 0

RECURSIVE TrailingSpaces(_)
TrailingSpaces(s) ==
  IF s # "" /\ IsSpace(CharAt(s, Len(s)))
  THEN 1 + TrailingSpaces(SubSeq(s, 1, Len(s) - 1))
  ELSE 0

\* str.strip()
strip(s) ==
  LET a == LeadingSpaces(s)
  IN IF a = Len(s) THEN "" ELSE SubSeq(s, a + 1, Len(s) - TrailingSpaces(s))

\* str.split(sep) with an explicit one-character separator: every occurrence
\* splits, so adjacent separators give empty strings.
RECURSIVE split(_, _)
split(s, sep) ==
  LET i == IndexIn(sep, s)
  IN IF i = 0 THEN <<s>>
     ELSE <<SubSeq(s, 1, i - 1)>> \o split(DropFirst(s, i), sep)

\* Whether needle occurs in s at position i.
OccursAt(needle, s, i) ==
  i + Len(needle) - 1 <= Len(s) /\ SubSeq(s, i, i + Len(needle) - 1) = needle

\* needle in s
Contains(needle, s) == \E i \in 1..(Len(s) + 1) : OccursAt(needle, s, i)

\* str.replace(old, new), old non-empty: leftmost, non-overlapping.
RECURSIVE replace(_, _, _)
replace(s, old, new) ==
  IF Len(s) < Len(old) THEN s
  ELSE IF OccursAt(old, s, 1) THEN new \o replace(DropFirst(s, Len(old)), old, new)
  ELSE CharAt(s, 1) \o replace(DropFirst(s, 1), old, new)

\* Value of a non-empty string of decimal digits.
RECURSIVE DigitsValue(_)
DigitsValue(s) ==
  IF s = "" THEN 0
  ELSE 10 * DigitsValue(SubSeq(s, 1, Len(s) - 1)) + (IndexIn(CharAt(s, Len(s)), Digits) - 1)

AllDigits(s) == s # "" /\ \A i \in 1..Len(s) : IsDigit(CharAt(s, i))

\* int(s): surrounding whitespace and one sign are accepted; anything else
\* raises ValueError (ok = FALSE).
int(s) ==
  LET t == strip(s)
      signed == t # "" /\ CharAt(t, 1) \in {"+", "-"}
      body == IF signed THEN DropFirst(t, 1) ELSE t
  IN IF AllDigits(body)
     THEN [ok |-> TRUE,
           n |-> IF signed /\ CharAt(t, 1) = "-" THEN 0 - DigitsValue(body)
                 ELSE DigitsValue(body)]
     ELSE [ok |-> FALSE, n |-> 0]

\* Decimal digits of n, zero-padded to two places (strftime's %I and %M).
Pad2(n) == IF n < 10 THEN "0" \o ToString(n) ELSE ToString(n)

\* str(v) of a cell value.
str(v) ==
  CASE v.k = "str" -> v.s
    [] v.k = "nan" -> "nan"
    [] v.k = "none" -> "None"
    [] v.k = "num" -> IF v.float THEN ToString(v.n) \o ".0" ELSE ToString(v.n)
    [] v.k = "time" -> Pad2(v.h) \o ":" \o Pad2(v.m) \o ":00"

\* re.findall(r'\d+', s): the maximal runs of digits, left to right.
RECURSIVE DigitRunLen(_)
DigitRunLen(s) ==
  IF s # "" /\ IsDigit(CharAt(s, 1)) THEN 1 + DigitRunLen(DropFirst(s, 1)) ELSE 0

RECURSIVE findall_digits(_)
findall_digits(s) ==
  IF s = "" THEN <<>>
  ELSE LET n == DigitRunLen(s)
       IN IF n = 0 THEN findall_digits(DropFirst(s, 1))
          ELSE <<SubSeq(s, 1, n)>> \o findall_digits(DropFirst(s, n))

(***************************************************************************)
(* Field normalizers.                                                      *)
(***************************************************************************)
\* hours, minutes = map(int, time.split(':')).  ok = FALSE stands for the
\* ValueError (a wrong number of fields, or a field int() rejects) that the
\* caller's bare except turns into its sentinel.
HoursMinutes(time) ==
  LET fields == split(time, ":")
  IN IF Len(fields) # 2 THEN [ok |-> FALSE, hours |-> 0, minutes |-> 0]
     ELSE LET h == int(fields[1])
              m == int(fields[2])
          IN IF h.ok /\ m.ok THEN [ok |-> TRUE, hours |-> h.n, minutes |-> m.n]
             ELSE [ok |-> FALSE, hours |-> 0, minutes |-> 0]

parse_time(time_val) ==
  IF isna(time_val) \/ IsEmptyStr(time_val) THEN PyNone
  ELSE IF time_val.k = "time" THEN PyInt(time_val.h * 60 + time_val.m)
  ELSE IF time_val.k = "str"
  THEN LET parts == split(strip(time_val.s), " ")
       IN IF Len(parts) # 2 THEN PyNone
          ELSE LET period == parts[2]
                   hm == HoursMinutes(parts[1])
                   hours1 == IF upper(period) = "PM" /\ hm.hours # 12
                             THEN hm.hours + 12 ELSE hm.hours
                   hours2 == IF upper(period) = "AM" /\ hours1 = 12 THEN 0 ELSE hours1
               IN IF hm.ok THEN PyInt(hours2 * 60 + hm.minutes) ELSE PyNone
  ELSE PyNone

extract_room_number(location) ==
  IF isna(location) \/ IsEmptyStr(location) THEN PyNone
  ELSE LET match == findall_digits(str(location))
       IN IF match # <<>> THEN PyInt(int(match[Len(match)]).n) ELSE PyNone

extract_last_name(instructor) ==
  IF isna(instructor) \/ IsEmptyStr(instructor) THEN Str("")
  ELSE IF instructor.k # "str" THEN Raise("TypeError")
  ELSE IF Contains("Wilnelia Recart Gonzalez", instructor.s) THEN Str("RECART")
  ELSE LET parts == split(strip(instructor.s), " ")
       IN Str(upper(parts[Len(parts)]))

\* re.sub(r'\s*(AM|PM)', '', s, flags=re.IGNORECASE)
RECURSIVE StripPeriod(_)
StripPeriod(s) ==
  IF s = "" THEN ""
  ELSE LET j == LeadingSpaces(s)
       IN IF j + 2 <= Len(s) /\ upper(SubSeq(s, j + 1, j + 2)) \in {"AM", "PM"}
          THEN StripPeriod(DropFirst(s, j + 2))
          ELSE CharAt(s, 1) \o StripPeriod(DropFirst(s, 1))

\* time.strftime('%I:%M')
strftime_IM(h, m) == Pad2(IF h % 12 = 0 THEN 12 ELSE h % 12) \o ":" \o Pad2(m)

format_time(time_val) ==
  IF isna(time_val) \/ IsEmptyStr(time_val) THEN Str("")
  ELSE IF time_val.k = "time"
  THEN LET formatted_time == strftime_IM(time_val.h, time_val.m)
       IN IF CharAt(formatted_time, 1) = "0" THEN Str(DropFirst(formatted_time, 1))
          ELSE Str(formatted_time)
  ELSE IF time_val.k = "str" THEN Str(StripPeriod(time_val.s))
  ELSE Str(str(time_val))

\* The abbreviations dictionary, in insertion order.
abbreviations ==
  << <<"Anatomy & Physiology", "A & P">>,
     <<"Bioenergetics and Systems", "Bioenergetics">>,
     <<"Genomes and Evolution", "Genome Evol">>,
     <<"Medical Microbiology", "Med Micro">>,
     <<"Earth/Life Sci for Educators", "Life Sci Ed">>,
     <<"Biostatistics", "Biostats">>,
     <<"Biology Capstone Seminar", "Capstone">>,
     <<"Insect Biology", "Insect Bio">>,
     <<"Science in the Public Domain", "SCI Pub Dom">>,
     <<"Ecological Community:San Diego", "Ecol Comm">>,
     <<"Research Methods", "Res Meth">>,
     <<"Cell Physiology", "Cell Phys">>,
     <<"Vertebrate Physiology", "Vert Phys">>,
     <<"Microbiology", "Micro">>,
     <<"Research Project", "Res Proj">>,
     <<"Techniques: Molecular Biology", "Molec Tech">>,
     <<"Comp. Anat. of Vertebrates", "Comp An Vert">>,
     <<"Invertebrate Zoology", "Invert Zoo">>,
     <<"Peoples, Plagues and Microbes", "Ppl Plag Micro">>,
     <<"Ecol Evol Infectious Disease", "EEID">>,
     <<"Immunology", "Immuno">>,
     <<"Laboratory", "">>,
     <<"Lab", "">> >>

\* Whether pattern character p (a literal, or "." for any character but a
\* newline) matches character c with case ignored; lo and up are p in lower
\* and in upper case.
CharMatches(p, lo, up, c) == IF p = "." THEN c # "\n" ELSE c = lo \/ c = up

\* Whether pattern positions n.. match s from position at + n - 1 on.
RECURSIVE MatchesFrom(_, _, _, _)
MatchesFrom(pat, s, at, n) ==
  IF n > Len(pat) THEN TRUE
  ELSE IF at + n - 1 > Len(s) THEN FALSE
  ELSE /\ CharMatches(CharAt(pat, n), LowerChar(CharAt(pat, n)), UpperChar(CharAt(pat, n)),
                      CharAt(s, at + n - 1))
       /\ MatchesFrom(pat, s, at, n + 1)

\* re.sub on s from position at on: leftmost matches, not overlapping.  p1,
\* lo1 and up1 are the pattern's first character and its two cases.
RECURSIVE SubFrom(_, _, _, _, _, _, _)
SubFrom(pat, p1, lo1, up1, repl, s, at) ==
  IF at > Len(s) THEN ""
  ELSE IF CharMatches(p1, lo1, up1, CharAt(s, at)) /\ MatchesFrom(pat, s, at, 2)
  THEN repl \o SubFrom(pat, p1, lo1, up1, repl, s, at + Len(pat))
  ELSE CharAt(s, at) \o SubFrom(pat, p1, lo1, up1, repl, s, at + 1)

\* re.sub(pat, repl, s, flags=re.IGNORECASE) for a non-empty pattern.
re_sub(pat, repl, s) ==
  SubFrom(pat, CharAt(pat, 1), LowerChar(CharAt(pat, 1)), UpperChar(CharAt(pat, 1)),
          repl, s, 1)

\* The loop over abbreviations.items(), rules i..Len(abbreviations).
RECURSIVE ApplyAbbreviations(_, _)
ApplyAbbreviations(title, i) ==
  IF i > Len(abbreviations) THEN title
  ELSE ApplyAbbreviations(re_sub(abbreviations[i][1], abbreviations[i][2], title), i + 1)

abbreviate_title(title) ==
  IF isna(title) \/ IsEmptyStr(title) THEN Str("")
  ELSE IF title.k # "str" THEN Raise("TypeError")
  ELSE Str(ApplyAbbreviations(title.s, 1))

\* mapping of expand_days
DayLetters == "MTWRFSU"

day_order == <<"Mon", "Tue", "Wed", "Thu", "Fri", "Sat", "Sun">>

RECURSIVE MapDays(_)
MapDays(s) ==
  IF s = "" THEN <<>>
  ELSE LET i == IndexIn(CharAt(s, 1), DayLetters)
       IN (IF i > 0 THEN <<day_order[i]>> ELSE <<>>) \o MapDays(DropFirst(s, 1))

expand_days(days_str) ==
  IF isna(days_str) \/ IsEmptyStr(days_str) THEN PyList(<<>>)
  ELSE PyList(MapDays(str(days_str)))

\* is_before_noon with "hours <= 12" for "hours < 12".
is_before_noon_inclusive(time_val) ==
  IF isna(time_val) \/ IsEmptyStr(time_val) THEN PyBool(FALSE)
  ELSE IF time_val.k = "time" THEN PyBool(time_val.h <= 12)
  ELSE IF time_val.k = "str"
  THEN LET time_parts == split(strip(time_val.s), " ")
       IN IF Len(time_parts) < 2 THEN PyBool(FALSE)
          ELSE LET period == upper(time_parts[2])
                   hm == HoursMinutes(time_parts[1])
                   hours == IF period = "PM" /\ hm.hours # 12 THEN hm.hours + 12
                            ELSE IF period = "AM" /\ hm.hours = 12 THEN 0
                            ELSE hm.hours
               IN IF hm.ok THEN PyBool(hours <= 12) ELSE PyBool(FALSE)
  ELSE PyBool(FALSE)

is_before_noon(time_val) ==
  IF isna(time_val) \/ IsEmptyStr(time_val) THEN PyBool(FALSE)
  ELSE IF time_val.k = "time" THEN PyBool(time_val.h < 12)
  ELSE IF time_val.k = "str"
  THEN LET time_parts == split(strip(time_val.s), " ")
       IN IF Len(time_parts) < 2 THEN PyBool(FALSE)
          ELSE LET period == upper(time_parts[2])
                   hm == HoursMinutes(time_parts[1])
                   hours == IF period = "PM" /\ hm.hours # 12 THEN hm.hours + 12
                            ELSE IF period = "AM" /\ hm.hours = 12 THEN 0
                            ELSE hm.hours
               IN IF hm.ok THEN PyBool(hours < 12) ELSE PyBool(FALSE)
  ELSE PyBool(FALSE)

(***************************************************************************)
(* process_csv_and_generate_doc: the inputs.                               *)
(***************************************************************************)
location_col == "Location: Unnamed: 15_level_1"

course_col == "Course Number:"

title_col == "Title: Unnamed: 3_level_1"

days_col == "Days: Unnamed: 6_level_1"

begin_col == "Begin Time:"

end_col == "End Time:"

instructor_col == "Instructors: Unnamed: 14_level_1"

seats_col == "Seats Remaining:"

\* The columns the loader indexes with df[...]: a missing one is a KeyError.
IndexedColumns == {course_col, title_col, instructor_col, seats_col}

\* The columns the row loop reads with row.get(...): a missing one reads None.
GetColumns == {location_col, days_col, begin_col, end_col}

AllColumns == IndexedColumns \cup GetColumns

\* One spreadsheet row: a cell value under every column label.
MkRow(loc, days, seats, course, title, instr, begin, end) ==
  [c \in AllColumns |->
     CASE c = location_col -> loc
       [] c = days_col -> days
       [] c = seats_col -> seats
       [] c = course_col -> course
       [] c = title_col -> title
       [] c = instructor_col -> instr
       [] c = begin_col -> begin
       [] c = end_col -> end]

\* The rows an upload is drawn from.
SampleRows ==
  { MkRow(Str("SCST 225"), Str("MW"), Num(5, FALSE), Str("BIOL 221L"),
          Str("Medical Microbiology Laboratory"), Str("Jane Smith"),
          Str("9:00 AM"), Str("9:50 AM")),
    MkRow(Str("SCST 227"), Str("M"), Num(0, FALSE), NaN, NaN, NaN,
          Str("1:00 PM"), Str("2:15 PM")),
    MkRow(Str("SCST 225"), Str("T"), Str("CLOSED"), Str("BIOL 300"),
          Str("Immunology"), Str("Ann Lee"), Str("9:00 AM"), Str("9:50 AM")),
    MkRow(Str("SCST 2 Room 225"), Str("WM"), NaN, Str("BIOL 342"),
          Str("Microbiology Lab"), Str("Wilnelia Recart Gonzalez"),
          Str("9:00 AM"), Str("11:50 AM")),
    MkRow(Num(225, FALSE), Str("M"), Num(3, FALSE), Str("BIOL 190"),
          Str("Biostatistics"), Str("Bo Chen"), Time(12, 0), Time(13, 15)),
    MkRow(Str("SCST 100"), Str("F"), Num(2, FALSE), Str("BIOL 101"),
          Str("Insect Biology"), Str("Cy Diaz"), Str("8:00 AM"), Str("8:50 AM")),
    MkRow(NaN, Str("MW"), Num(1, FALSE), Str("BIOL 496"),
          Str("Research Project"), Str("Di Eng"), Str("2:00 PM"), Str("3:00 PM")),
    MkRow(Str("SCST 227"), Str("TXR"), Num(4, FALSE), Str("BIOL 240"),
          Str("Cell Physiology"), Num(7, FALSE), Str("10:00 AM"), Str("10:50 AM")),
    MkRow(Str("SCST 225"), Str("xyz"), Num(6, FALSE), Str("BIOL 499"),
          Num(499, FALSE), Str("Ed Fox"), Str("3:00 PM"), Str("4:00 PM")),
    MkRow(Str("SCST 225"), Str("M"), Num(8, FALSE), Str("BIOL 116"),
          Str("Lab"), Str("Flo Gray"), NaN, NaN) }

\* Largest number of rows in an upload.
MaxRows == 3

RECURSIVE SeqsUpTo(_, _)
SeqsUpTo(S, n) ==
  IF n = 0 THEN {<<>>}
  ELSE LET shorter == SeqsUpTo(S, n - 1)
       IN shorter \cup {Append(s, x) : s \in {q \in shorter : Len(q) = n - 1}, x \in S}

\* The target room lists: the caller's list and a short unsorted one.
TargetLists == { <<225, 227, 229, 242, 325, 327, 330, 429>>, <<227, 225>> }

\* An upload: the file's name and the column labels its header flattens to.
\* Uploads are those of Spec (rows up to MaxRows), AllUploads those of
\* SpecLoad (every name and every single missing column, rows up to
\* MaxLoadRows).
Uploads ==
  { [name |-> "fall.csv", columns |-> AllColumns],
    [name |-> "fall.CSV", columns |-> AllColumns],
    [name |-> "fall.xlsx", columns |-> AllColumns \ {seats_col}] }

AllUploads ==
  {[name |-> n, columns |-> AllColumns] : n \in {"fall.csv", "fall.xlsx", "fall.CSV", "fall.xls"}}
    \cup {[name |-> "fall.csv", columns |-> AllColumns \ {c}] : c \in AllColumns}

MaxLoadRows == 2

\* The cell values the normalizers are applied to in SpecNorm.
MaxHour == 13

MinuteSamples == {0, 5, 30, 59, 60}

PeriodSamples == {"AM", "PM", "am", "Pm", "XM"}

ClockString(h, m, p) == ToString(h) \o ":" \o Pad2(m) \o " " \o p

CellSamples ==
  {Str(ClockString(h, m, p)) : h \in 0..MaxHour, m \in MinuteSamples, p \in PeriodSamples}
    \cup {Time(h, m) : h \in {0, 9, 11, 12, 13, 23}, m \in {0, 59}}
    \cup {Num(n, f) : n \in {0, 7, 227}, f \in BOOLEAN}
    \cup {NaN, PyNone}
    \cup {Str(s) : s \in {"", " ", "9:05", "9:05 AM x", "9:05  AM", " 9:05 AM ", "9 AM",
                          "9:05:00 AM", "nine:05 AM", "9:five AM", "-1:30 AM", "AM 9:05",
                          "MWF", "XYZ", "Life Sciences 227", "TBA", "Jane Smith",
                          "Wilnelia Recart Gonzalez", "Medical Microbiology Laboratory"}}

VARIABLES
  uploaded_file,     \* the upload: name, column labels, rows
  target_rooms,      \* the configured room list
  pc,                \* position in process_csv_and_generate_doc and its caller
  df,                \* the frame after forward fill and the CLOSED filter
  i,                 \* 1-based position of the row loop in df
  entries,           \* the records appended so far
  unsorted,          \* entries as they were when the sort began
  chart_rows,        \* the grid
  table,             \* the data rows of the rendered table
  result,            \* the returned pair (doc_buffer, count)
  failure,           \* which failure path, if any, produced the result
  ui,                \* what the caller showed for the result
  cell,              \* SpecNorm: the cell value under test
  fn,                \* SpecNorm: the normalizer last applied to cell
  res                \* SpecNorm: what it returned

vars == <<uploaded_file, target_rooms, pc, df, i, entries, unsorted, chart_rows,
          table, result, failure, ui, cell, fn, res>>

(***************************************************************************)
(* process_csv_and_generate_doc: the stages as operators.                  *)
(***************************************************************************)
\* str.endswith(suffix)
endswith(s, suffix) ==
  Len(suffix) <= Len(s) /\ SubSeq(s, Len(s) - Len(suffix) + 1, Len(s)) = suffix

\* DataFrame.ffill() on the columns cols: a missing value takes the last
\* value above it that is not missing; last holds those values.
RECURSIVE ffill(_, _, _)
ffill(rs, cols, last) ==
  IF rs = <<>> THEN <<>>
  ELSE LET filled == [c \in DOMAIN Head(rs) |->
                        IF c \in cols /\ isna(Head(rs)[c]) THEN last[c] ELSE Head(rs)[c]]
       IN <<filled>> \o ffill(Tail(rs), cols, filled)

NotClosed(row) == row[seats_col] # Str("CLOSED")

\* Lines 137-147: the frame with its columns, forward filled, CLOSED rows out.
LoadedFrame(file) ==
  LET frame == [r \in 1..Len(file.rows) |-> [c \in file.columns |-> file.rows[r][c]]]
      filled == ffill(frame, {course_col, title_col, instructor_col},
                      [c \in file.columns |-> NaN])
  IN SelectSeq(filled, NotClosed)

\* row.get(col): None when the frame has no such column.
row_get(row, col) == IF col \in DOMAIN row THEN row[col] ELSE PyNone

\* The filter rejecting only a missing room number.
NotInTargetsOnlyNone(room) == room.k # "int"

\* room not in target_rooms
NotInTargets(room) ==
  ~(room.k = "int" /\ \E j \in 1..Len(target_rooms) : target_rooms[j] = room.n)

\* Whether building the record of this row raises: abbreviate_title and
\* extract_last_name are the calls of the dict literal that can.
RowRaises(row) ==
  \/ abbreviate_title(row_get(row, title_col)).k = "raise"
  \/ extract_last_name(row_get(row, instructor_col)).k = "raise"

\* The dict appended for one day of a row (lines 167-177).
Entry(row, room, day) ==
  [Day |-> day,
   Room |-> room,
   Course_Number |-> replace(str(row_get(row, course_col)), "BIOL", "BIO"),
   Title |-> abbreviate_title(row_get(row, title_col)).s,
   Begin_Time |-> format_time(row_get(row, begin_col)).s,
   End_Time |-> format_time(row_get(row, end_col)).s,
   Instructors |-> extract_last_name(row_get(row, instructor_col)).s,
   Begin_Time_Parsed |-> parse_time(row_get(row, begin_col)),
   Begin_Time_Original |-> row_get(row, begin_col)]

\* day_order.index(d)
DayIndex(d) == CHOOSE n \in 1..Len(day_order) : day_order[n] = d

\* The sort key of line 188; "x or 0" reads None (and 0) as 0.
SortKey(e) ==
  <<DayIndex(e.Day), e.Room,
    IF e.Begin_Time_Parsed.k = "int" THEN e.Begin_Time_Parsed.n ELSE 0>>

\* Tuple comparison a < b on keys.
KeyLess(a, b) ==
  \/ a[1] < b[1]
  \/ a[1] = b[1] /\ a[2] < b[2]
  \/ a[1] = b[1] /\ a[2] = b[2] /\ a[3] < b[3]

\* e placed before the elements of equal key: an unstable sort.
InsertBeforeEqual(sorted, e) ==
  LET later == {n \in 1..Len(sorted) : ~KeyLess(SortKey(sorted[n]), SortKey(e))}
      at == IF later = {} THEN Len(sorted) + 1
            ELSE CHOOSE n \in later : \A m \in later : n <= m
  IN SubSeq(sorted, 1, at - 1) \o <<e>> \o SubSeq(sorted, at, Len(sorted))

\* e placed after every element whose key is not greater: list.sort is stable.
InsertStable(sorted, e) ==
  LET later == {n \in 1..Len(sorted) : KeyLess(SortKey(e), SortKey(sorted[n]))}
      at == IF later = {} THEN Len(sorted) + 1
            ELSE CHOOSE n \in later : \A m \in later : n <= m
  IN SubSeq(sorted, 1, at - 1) \o <<e>> \o SubSeq(sorted, at, Len(sorted))

RECURSIVE SortFrom(_, _)
SortFrom(sorted, rest) ==
  IF rest = <<>> THEN sorted ELSE SortFrom(InsertStable(sorted, Head(rest)), Tail(rest))

\* entries.sort(key=...)
sort_entries(es) == SortFrom(<<>>, es)

\* sorted(target_rooms): ascending, duplicates kept.
RECURSIVE sorted_ints(_)
sorted_ints(s) ==
  IF s = <<>> THEN <<>>
  ELSE LET rest == sorted_ints(Tail(s))
           smaller == SelectSeq(rest, LAMBDA x : x <= Head(s))
           larger == SelectSeq(rest, LAMBDA x : x > Head(s))
       IN smaller \o <<Head(s)>> \o larger

\* sorted(set(e['Day'] for e in entries), key=day_order.index)
days_present(es) ==
  SelectSeq(day_order, LAMBDA d : \E n \in 1..Len(es) : es[n].Day = d)

\* d[key] = val on an insertion-ordered dict, kept as a sequence of items.
DictSet(d, key, val) ==
  IF \E n \in 1..Len(d) : d[n].key = key
  THEN [n \in 1..Len(d) |-> IF d[n].key = key THEN [key |-> key, val |-> val] ELSE d[n]]
  ELSE Append(d, [key |-> key, val |-> val])

\* The cell filter without the day test.
classes_of_room_only(es, day, room) == SelectSeq(es, LAMBDA e : e.Room = room)

\* [e for e in entries if e['Day'] == day and e['Room'] == room]
classes_of(es, day, room) == SelectSeq(es, LAMBDA e : e.Day = day /\ e.Room = room)

\* The loop of lines 196-198 from room index n on.
RECURSIVE FillRow(_, _, _, _, _)
FillRow(row, es, day, rooms, n) ==
  IF n > Len(rooms) THEN row
  ELSE LET classes == classes_of(es, day, rooms[n])
       IN FillRow(DictSet(row, "ST" \o ToString(rooms[n]),
                          IF classes # <<>> THEN PyList(classes) ELSE Str("")),
                  es, day, rooms, n + 1)

\* Lines 190-199: one dict per present day.
build_chart_rows(es, targets) ==
  LET rooms_sorted == sorted_ints(targets)
      present == days_present(es)
  IN [n \in 1..Len(present) |->
        FillRow(<<[key |-> "Day", val |-> Str(present[n])]>>, es, present[n],
                rooms_sorted, 1)]

\* The four-line block of a record (lines 309 and 325).
class_text(e) ==
  e.Begin_Time \o "-" \o e.End_Time \o "\n" \o e.Course_Number \o "\n"
    \o e.Title \o "\n" \o e.Instructors

Run(site, text, color) == [site |-> site, text |-> text, color |-> color]

\* The runs of one group: "\n\n" before every record but the first.
GroupRuns(classes, color) ==
  LET one(n) == (IF n > 1 THEN <<Run("gap", "\n\n", "none")>> ELSE <<>>)
                  \o <<Run("class", class_text(classes[n]), color)>>
      RECURSIVE upto(_)
      upto(n) == IF n = 0 THEN <<>> ELSE upto(n - 1) \o one(n)
  IN upto(Len(classes))

\* The classification read off the display string instead of the raw value.
IsMorningByDisplay(e) == is_before_noon(Str(e.Begin_Time)).b

\* is_before_noon(e['Begin_Time_Original']) of line 289
IsMorning(e) == is_before_noon(e.Begin_Time_Original).b

\* Lines 282-333: the cell of a room column.
render_cell(val) ==
  IF val.k = "list" /\ val.items # <<>>
  THEN LET morning_classes == SelectSeq(val.items, IsMorning)
           afternoon_classes == SelectSeq(val.items, LAMBDA e : ~IsMorning(e))
           only_afternoon == Len(morning_classes) = 0 /\ Len(afternoon_classes) > 0
       IN [vertical_alignment |-> IF only_afternoon THEN "BOTTOM" ELSE "TOP",
           runs |-> <<Run("lead", "\n", "none")>>
                      \o GroupRuns(morning_classes, "blue")
                      \o (IF morning_classes # <<>> /\ afternoon_classes # <<>>
                          THEN <<Run("separator", "\n\n", "none")>> ELSE <<>>)
                      \o GroupRuns(afternoon_classes, "green")]
  ELSE [vertical_alignment |-> "unset", runs |-> <<Run("empty", "", "none")>>]

\* Lines 269-333: one table row per chart row, one cell per column.
render_rows(rows) ==
  [r \in 1..Len(rows) |->
     [c \in 1..Len(rows[r]) |->
        [column |-> rows[r][c].key,
         cell |-> IF rows[r][c].key = "Day"
                  THEN [vertical_alignment |-> "unset",
                        runs |-> <<Run("day", rows[r][c].val.s, "none")>>]
                  ELSE render_cell(rows[r][c].val)]]]

(***************************************************************************)
(* The pipeline as a state machine.                                        *)
(***************************************************************************)
NoResult == [doc_buffer |-> PyNone, count |-> 0]

NormIdle == cell = NaN /\ fn = "none" /\ res = PyNone

\* The state at the call, for an upload of ups with at most n rows.
InitWith(ups, n) ==
  /\ \E up \in ups, rs \in SeqsUpTo(SampleRows, n) :
       uploaded_file = [name |-> up.name, columns |-> up.columns, rows |-> rs]
  /\ target_rooms \in TargetLists
  /\ pc = "start"
  /\ df = <<>>
  /\ i = 1
  /\ entries = <<>>
  /\ unsorted = <<>>
  /\ chart_rows = <<>>
  /\ table = <<>>
  /\ result = NoResult
  /\ failure = "none"
  /\ ui = "none"
  /\ NormIdle

Init == InitWith(Uploads, MaxRows)

InitLoad == InitWith(AllUploads, MaxLoadRows)

\* Lines 136-142: a name ending in neither .csv nor .xlsx.
UnsupportedFile ==
  /\ pc = "start"
  /\ ~endswith(uploaded_file.name, ".csv")
  /\ ~endswith(uploaded_file.name, ".xlsx")
  /\ result' = NoResult
  /\ failure' = "filetype"
  /\ pc' = "returned"
  /\ UNCHANGED <<uploaded_file, target_rooms, df, i, entries, unsorted, chart_rows,
                 table, ui, cell, fn, res>>

\* Lines 146-147 and 341-343: df[...] on a label the frame lacks raises
\* KeyError, which the outer except turns into (None, 0).
MissingColumn ==
  /\ pc = "start"
  /\ endswith(uploaded_file.name, ".csv") \/ endswith(uploaded_file.name, ".xlsx")
  /\ ~(IndexedColumns \subseteq uploaded_file.columns)
  /\ result' = NoResult
  /\ failure' = "column"
  /\ pc' = "returned"
  /\ UNCHANGED <<uploaded_file, target_rooms, df, i, entries, unsorted, chart_rows,
                 table, ui, cell, fn, res>>

\* Lines 136-157: the frame is read, forward filled and filtered.
LoadFrame ==
  /\ pc = "start"
  /\ endswith(uploaded_file.name, ".csv") \/ endswith(uploaded_file.name, ".xlsx")
  /\ IndexedColumns \subseteq uploaded_file.columns
  /\ df' = LoadedFrame(uploaded_file)
  /\ entries' = <<>>
  /\ i' = 1
  /\ pc' = "rows"
  /\ UNCHANGED <<uploaded_file, target_rooms, unsorted, chart_rows, table, result,
                 failure, ui, cell, fn, res>>

\* Lines 162-164: the row's room is not a target room.
SkipRow ==
  /\ pc = "rows"
  /\ i <= Len(df)
  /\ NotInTargets(extract_room_number(row_get(df[i], location_col)))
  /\ i' = i + 1
  /\ UNCHANGED <<uploaded_file, target_rooms, pc, df, entries, unsorted, chart_rows,
                 table, result, failure, ui, cell, fn, res>>

\* Lines 165-177: one record per day of the row.
ExpandRow ==
  /\ pc = "rows"
  /\ i <= Len(df)
  /\ LET room == extract_room_number(row_get(df[i], location_col))
         days == expand_days(row_get(df[i], days_col)).items
     IN /\ ~NotInTargets(room)
        /\ days = <<>> \/ ~RowRaises(df[i])
        /\ entries' = entries \o [d \in 1..Len(days) |-> Entry(df[i], room.n, days[d])]
  /\ i' = i + 1
  /\ UNCHANGED <<uploaded_file, target_rooms, pc, df, unsorted, chart_rows, table,
                 result, failure, ui, cell, fn, res>>

\* Lines 166-185: building the first record of the row raises; the except
\* clause reports the row and returns (None, 0).
RowError ==
  /\ pc = "rows"
  /\ i <= Len(df)
  /\ ~NotInTargets(extract_room_number(row_get(df[i], location_col)))
  /\ expand_days(row_get(df[i], days_col)).items # <<>>
  /\ RowRaises(df[i])
  /\ result' = NoResult
  /\ failure' = "row"
  /\ pc' = "returned"
  /\ UNCHANGED <<uploaded_file, target_rooms, df, i, entries, unsorted, chart_rows,
                 table, ui, cell, fn, res>>

\* Lines 187-188.
SortEntries ==
  /\ pc = "rows"
  /\ i > Len(df)
  /\ unsorted' = entries
  /\ entries' = sort_entries(entries)
  /\ pc' = "sorted"
  /\ UNCHANGED <<uploaded_file, target_rooms, df, i, chart_rows, table, result,
                 failure, ui, cell, fn, res>>

\* Lines 190-201.
BuildGrid ==
  /\ pc = "sorted"
  /\ chart_rows' = build_chart_rows(entries, target_rooms)
  /\ pc' = "grid"
  /\ UNCHANGED <<uploaded_file, target_rooms, df, i, entries, unsorted, table,
                 result, failure, ui, cell, fn, res>>

\* Lines 203-339: the table is rendered, the document saved and returned.
RenderAndReturn ==
  /\ pc = "grid"
  /\ table' = render_rows(chart_rows)
  /\ result' = [doc_buffer |->
                  [k |-> "docx",
                   columns |-> IF chart_rows = <<>> THEN <<>>
                               ELSE [c \in 1..Len(chart_rows[1]) |-> chart_rows[1][c].key],
                   rows |-> render_rows(chart_rows)],
                count |-> Len(entries)]
  /\ pc' = "returned"
  /\ UNCHANGED <<uploaded_file, target_rooms, df, i, entries, unsorted, chart_rows,
                 failure, ui, cell, fn, res>>

\* Lines 393-407: the caller offers the download only for a document.
ShowResult ==
  /\ pc = "returned"
  /\ ui' = IF result.doc_buffer.k # "none" THEN "download" ELSE "error"
  /\ pc' = "shown"
  /\ UNCHANGED <<uploaded_file, target_rooms, df, i, entries, unsorted, chart_rows,
                 table, result, failure, cell, fn, res>>

Next ==
  \/ UnsupportedFile
  \/ MissingColumn
  \/ LoadFrame
  \/ SkipRow
  \/ ExpandRow
  \/ RowError
  \/ SortEntries
  \/ BuildGrid
  \/ RenderAndReturn
  \/ ShowResult

Spec == Init /\ [][Next]_vars

SpecLoad == InitLoad /\ [][Next]_vars

(***************************************************************************)
(* The normalizers applied to one cell value.                              *)
(***************************************************************************)
InitNorm ==
  /\ cell \in CellSamples
  /\ fn = "none"
  /\ res = PyNone
  /\ uploaded_file = [name |-> "", columns |-> {}, rows |-> <<>>]
  /\ target_rooms = <<>>
  /\ pc = "off"
  /\ df = <<>>
  /\ i = 1
  /\ entries = <<>>
  /\ unsorted = <<>>
  /\ chart_rows = <<>>
  /\ table = <<>>
  /\ result = NoResult
  /\ failure = "none"
  /\ ui = "none"

Apply(name, value) ==
  /\ pc = "off"
  /\ fn' = name
  /\ res' = value
  /\ UNCHANGED <<cell, uploaded_file, target_rooms, pc, df, i, entries, unsorted,
                 chart_rows, table, result, failure, ui>>

ApplyParseTime == Apply("parse_time", parse_time(cell))

ApplyExtractRoomNumber == Apply("extract_room_number", extract_room_number(cell))

ApplyExtractLastName == Apply("extract_last_name", extract_last_name(cell))

ApplyFormatTime == Apply("format_time", format_time(cell))

ApplyAbbreviateTitle == Apply("abbreviate_title", abbreviate_title(cell))

ApplyExpandDays == Apply("expand_days", expand_days(cell))

ApplyIsBeforeNoon == Apply("is_before_noon", is_before_noon(cell))

NextNorm ==
  \/ ApplyParseTime
  \/ ApplyExtractRoomNumber
  \/ ApplyExtractLastName
  \/ ApplyFormatTime
  \/ ApplyAbbreviateTitle
  \/ ApplyExpandDays
  \/ ApplyIsBeforeNoon

SpecNorm == InitNorm /\ [][NextNorm]_vars

(***************************************************************************)
(* Properties of the pipeline, checked under Spec.                         *)
(***************************************************************************)
TargetSet == {target_rooms[j] : j \in 1..Len(target_rooms)}

FileLoaded ==
  /\ pc # "start"
  /\ failure \notin {"filetype", "column"}

Completed == pc \in {"returned", "shown"} /\ failure = "none"

\* The room number of a row of the frame, as extract_room_number reads it.
RoomOf(row) == extract_room_number(row_get(row, location_col))

HasTargetRoom(row) == RoomOf(row) # PyNone /\ RoomOf(row).n \in TargetSet

\* The weekdays of a day string: one per recognized letter, in letter order.
WeekdayOfLetter(c) ==
  CASE c = "M" -> "Mon" [] c = "T" -> "Tue" [] c = "W" -> "Wed" [] c = "R" -> "Thu"
    [] c = "F" -> "Fri" [] c = "S" -> "Sat" [] c = "U" -> "Sun" [] OTHER -> ""

RECURSIVE WeekdaysUpTo(_, _)
WeekdaysUpTo(s, n) ==
  IF n = 0 THEN <<>>
  ELSE WeekdaysUpTo(s, n - 1)
         \o (IF WeekdayOfLetter(CharAt(s, n)) # "" THEN <<WeekdayOfLetter(CharAt(s, n))>>
             ELSE <<>>)

WeekdaysOfRow(row) ==
  LET v == row_get(row, days_col)
  IN IF v.k = "str" THEN WeekdaysUpTo(v.s, Len(v.s)) ELSE <<>>

\* Number of records the first n rows of the frame are to contribute.
RECURSIVE RecordsDue(_)
RecordsDue(n) ==
  IF n = 0 THEN 0
  ELSE RecordsDue(n - 1) + (IF HasTargetRoom(df[n]) THEN Len(WeekdaysOfRow(df[n])) ELSE 0)

\* C1: every record in entries has a room of the target room list, and the
\* rows handled so far whose location gives no room number, or a room
\* outside the list, have contributed no record: the number of records is
\* the number of weekdays of the handled rows with a target room.
C1_FilterInvariant ==
  /\ \A n \in 1..Len(entries) : entries[n].Room \in TargetSet
  /\ FileLoaded => Len(entries) = RecordsDue(i - 1)

\* A sorted run in which a row without a room number and a row with a room
\* outside the list were both skipped and another row gave records.
C1_Witness ==
  /\ pc = "sorted"
  /\ entries # <<>>
  /\ \E a, b \in 1..Len(df) :
       /\ RoomOf(df[a]) = PyNone
       /\ RoomOf(df[b]) # PyNone
       /\ RoomOf(df[b]).n \notin TargetSet

WeekdayIndex(d) ==
  CASE d = "Mon" -> 0 [] d = "Tue" -> 1 [] d = "Wed" -> 2 [] d = "Thu" -> 3
    [] d = "Fri" -> 4 [] d = "Sat" -> 5 [] d = "Sun" -> 6

\* The key of the claim: weekday index, room, start minutes with null as 0.
ClaimKey(e) ==
  <<WeekdayIndex(e.Day), e.Room,
    IF e.Begin_Time_Parsed = PyNone THEN 0 ELSE e.Begin_Time_Parsed.n>>

LexLeq(a, b) ==
  \/ a[1] < b[1]
  \/ a[1] = b[1] /\ a[2] < b[2]
  \/ a[1] = b[1] /\ a[2] = b[2] /\ a[3] <= b[3]

WithKey(es, key) == SelectSeq(es, LAMBDA e : ClaimKey(e) = key)

AfterSort == pc \in {"sorted", "grid"} \/ Completed

\* C2: after the sort the keys of adjacent records are lexicographically
\* non-decreasing, and for every key the records of that key are the same,
\* in the same order, as before the sort (so the sorted list is a
\* permutation of the unsorted one and equal keys keep their order).
C2_StableSort ==
  AfterSort =>
    /\ \A n \in 1..(Len(entries) - 1) : LexLeq(ClaimKey(entries[n]), ClaimKey(entries[n + 1]))
    /\ Len(entries) = Len(unsorted)
    /\ \A n \in 1..Len(unsorted) :
         WithKey(entries, ClaimKey(unsorted[n])) = WithKey(unsorted, ClaimKey(unsorted[n]))

\* A sort that moved records and had two different records of equal key, and
\* a record without a start time.
C2_Witness ==
  /\ pc = "sorted"
  /\ entries # unsorted
  /\ \E a, b \in 1..Len(unsorted) :
       a < b /\ unsorted[a] # unsorted[b] /\ ClaimKey(unsorted[a]) = ClaimKey(unsorted[b])
  /\ \E n \in 1..Len(entries) : entries[n].Begin_Time_Parsed = PyNone

\* The elements of a finite set of integers in ascending order.
RECURSIVE Ascending(_)
Ascending(S) ==
  IF S = {} THEN <<>>
  ELSE LET least == CHOOSE x \in S : \A y \in S : x <= y
       IN <<least>> \o Ascending(S \ {least})

\* The weekdays that occur in a record, in canonical order.
WeekdaysPresent ==
  SelectSeq(<<"Mon", "Tue", "Wed", "Thu", "Fri", "Sat", "Sun">>,
            LAMBDA d : \E n \in 1..Len(entries) : entries[n].Day = d)

RecordsOf(day, room) == SelectSeq(entries, LAMBDA e : e.Day = day /\ e.Room = room)

GridBuilt == pc = "grid" \/ Completed

\* C3: the grid has one row per weekday that occurs in a record, in
\* canonical order; each row has, after its day, one cell per target room
\* in ascending order; the cell of (weekday, room) holds the records of that
\* weekday and room in the order of the sorted list, or the empty cell when
\* there are none; every record lies in exactly one cell.
C3_Grid ==
  GridBuilt =>
    LET rooms == Ascending(TargetSet)
    IN /\ Len(chart_rows) = Len(WeekdaysPresent)
       /\ \A r \in 1..Len(chart_rows) :
            /\ Len(chart_rows[r]) = 1 + Len(rooms)
            /\ chart_rows[r][1] = [key |-> "Day", val |-> Str(WeekdaysPresent[r])]
            /\ \A c \in 1..Len(rooms) :
                 /\ chart_rows[r][c + 1].key = "ST" \o ToString(rooms[c])
                 /\ chart_rows[r][c + 1].val =
                      (IF RecordsOf(WeekdaysPresent[r], rooms[c]) = <<>> THEN Str("")
                       ELSE PyList(RecordsOf(WeekdaysPresent[r], rooms[c])))
       /\ \A n \in 1..Len(entries) :
            Cardinality({rc \in (1..Len(chart_rows)) \X (1..Len(rooms)) :
                           /\ WeekdaysPresent[rc[1]] = entries[n].Day
                           /\ rooms[rc[2]] = entries[n].Room}) = 1

\* A grid of at least two weekdays for the unsorted room list, with an empty
\* cell and a cell of two records.
C3_Witness ==
  /\ pc = "grid"
  /\ target_rooms = <<227, 225>>
  /\ Len(chart_rows) >= 2
  /\ \E r \in 1..Len(chart_rows) : \E c \in 2..Len(chart_rows[r]) :
       chart_rows[r][c].val = Str("")
  /\ \E r \in 1..Len(chart_rows) : \E c \in 2..Len(chart_rows[r]) :
       chart_rows[r][c].val.k = "list" /\ Len(chart_rows[r][c].val.items) >= 2

\* The rows of the upload that are to give records, each with its weekdays:
\* not CLOSED and with a target room.
RECURSIVE DueFrom(_, _)
DueFrom(rows, n) ==
  IF n > Len(rows) THEN <<>>
  ELSE LET row == rows[n]
           days == WeekdaysOfRow(row)
       IN (IF row[seats_col] # Str("CLOSED") /\ HasTargetRoom(row)
           THEN [d \in 1..Len(days) |-> [row |-> n, Day |-> days[d], Room |-> RoomOf(row).n]]
           ELSE <<>>) \o DueFrom(rows, n + 1)

FileAccepted ==
  /\ \E n \in 1..Len(uploaded_file.name) :
       SubSeq(uploaded_file.name, n, Len(uploaded_file.name)) \in {".csv", ".xlsx"}
  /\ {course_col, title_col, instructor_col, seats_col} \subseteq uploaded_file.columns

\* The claim's own example: room 225 "MW", room 227 "M" and a CLOSED row
\* for room 225 "T".
IsExampleUpload ==
  /\ Len(uploaded_file.rows) = 3
  /\ \A n \in 1..3 :
       /\ RoomOf(uploaded_file.rows[n]) = PyInt(<<225, 227, 225>>[n])
       /\ uploaded_file.rows[n][days_col] = Str(<<"MW", "M", "T">>[n])
       /\ (uploaded_file.rows[n][seats_col] = Str("CLOSED")) = (n = 3)

\* The records as the row loop left them, whatever the sort did later.
Emitted == IF pc \in {"rows", "returned"} /\ unsorted = <<>> THEN entries ELSE unsorted

RecordsAsDue(emitted, count) ==
  LET due == DueFrom(uploaded_file.rows, 1)
  IN /\ Len(emitted) = Len(due)
     /\ count = Len(due)
     /\ \A n \in 1..Len(due) : emitted[n].Day = due[n].Day /\ emitted[n].Room = due[n].Room
     /\ \A a, b \in 1..Len(due) :
          due[a].row = due[b].row =>
            [emitted[a] EXCEPT !.Day = ""] = [emitted[b] EXCEPT !.Day = ""]
     /\ IsExampleUpload => count = 3

\* C4: once an accepted upload has been processed, the records are exactly
\* one per recognized day letter, in letter order, of every row that is not
\* CLOSED and has a target room, rows in file order; the records of one row
\* differ in the weekday only; the returned count is their number; the
\* claim's example gives 3.
C4_ExpansionAsClaimed ==
  (pc = "returned" /\ FileAccepted) => RecordsAsDue(Emitted, result.count)

\* C4 on the invocations in which no row raised.
C4_ExpansionWhenNoRowRaises ==
  (pc = "returned" /\ FileAccepted /\ failure = "none") => RecordsAsDue(Emitted, result.count)

\* The claim's example, returned with its 3 records.
C4_ExampleReturned == pc = "returned" /\ failure = "none" /\ IsExampleUpload /\ result.count = 3

\* The cell rendered for grid row r, column c.
RenderedCell(r, c) == result.doc_buffer.rows[r][c].cell

ClassRuns(runs) == SelectSeq(runs, LAMBDA x : x.site = "class")

MorningOf(items) ==
  SelectSeq(items, LAMBDA e : is_before_noon(e.Begin_Time_Original) = PyBool(TRUE))

AfternoonOf(items) ==
  SelectSeq(items, LAMBDA e : is_before_noon(e.Begin_Time_Original) = PyBool(FALSE))

\* The record blocks of a cell in the claimed order, each with its colour.
BlocksAsClaimed(items) ==
  [n \in 1..Len(MorningOf(items)) |->
     [site |-> "class", text |-> class_text(MorningOf(items)[n]), color |-> "blue"]]
    \o [n \in 1..Len(AfternoonOf(items)) |->
          [site |-> "class", text |-> class_text(AfternoonOf(items)[n]), color |-> "green"]]

\* Position p of runs holds the separator of the two groups: the last
\* morning block is right before it and the first afternoon block right
\* after it.
SeparatesGroups(runs, p, items) ==
  /\ runs[p].site = "separator"
  /\ 1 < p /\ p < Len(runs)
  /\ runs[p - 1].site = "class" /\ runs[p - 1].color = "blue"
  /\ runs[p - 1].text = class_text(MorningOf(items)[Len(MorningOf(items))])
  /\ runs[p + 1].site = "class" /\ runs[p + 1].color = "green"
  /\ runs[p + 1].text = class_text(AfternoonOf(items)[1])

NonEmptyCells ==
  {rc \in (1..Len(chart_rows)) \X (2..(1 + Len(target_rooms))) :
     /\ rc[2] <= Len(chart_rows[rc[1]])
     /\ chart_rows[rc[1]][rc[2]].val.k = "list"}

\* C9: in every non-empty cell of a returned document the record blocks are
\* the records classified morning on the raw start value, in sorted order,
\* then those classified afternoon, in sorted order, each once; a separator
\* stands between the groups if and only if both are non-empty; the cell is
\* bottom-aligned if and only if it has afternoon and no morning records,
\* top-aligned otherwise.
C9_MorningFirst ==
  Completed =>
    \A rc \in NonEmptyCells :
      LET items == chart_rows[rc[1]][rc[2]].val.items
          rendered == RenderedCell(rc[1], rc[2])
          both == MorningOf(items) # <<>> /\ AfternoonOf(items) # <<>>
          separators == {p \in 1..Len(rendered.runs) : rendered.runs[p].site = "separator"}
      IN /\ ClassRuns(rendered.runs) = BlocksAsClaimed(items)
         /\ Len(ClassRuns(rendered.runs)) = Len(items)
         /\ both => \E p \in separators : separators = {p}
                                          /\ SeparatesGroups(rendered.runs, p, items)
         /\ ~both => separators = {}
         /\ (rendered.vertical_alignment = "BOTTOM")
              = (AfternoonOf(items) # <<>> /\ MorningOf(items) = <<>>)
         /\ (rendered.vertical_alignment = "TOP")
              = ~(AfternoonOf(items) # <<>> /\ MorningOf(items) = <<>>)

\* A returned document with a cell whose first record in sorted order is an
\* afternoon one and which also has a morning record, and with a cell of
\* afternoon records only.
C9_Witness ==
  /\ Completed
  /\ \E rc \in NonEmptyCells :
       LET items == chart_rows[rc[1]][rc[2]].val.items
       IN /\ MorningOf(items) # <<>>
          /\ is_before_noon(items[1].Begin_Time_Original) = PyBool(FALSE)
          /\ RenderedCell(rc[1], rc[2]).vertical_alignment = "TOP"
  /\ \E rc \in NonEmptyCells :
       RenderedCell(rc[1], rc[2]).vertical_alignment = "BOTTOM"

(***************************************************************************)
(* Failure handling, checked under SpecLoad.                               *)
(***************************************************************************)
NameSupported ==
  \E n \in 1..Len(uploaded_file.name) :
    SubSeq(uploaded_file.name, n, Len(uploaded_file.name)) \in {".csv", ".xlsx"}

\* The columns the spec's input interface lists as required.
RequiredColumns ==
  {course_col, title_col, days_col, begin_col, end_col, instructor_col, seats_col,
   location_col}

\* The columns whose absence the loader does not survive.
LoaderColumns == {course_col, title_col, instructor_col, seats_col}

\* A row of the loaded frame whose record cannot be built: a target room, a
\* recognized day letter, and a title or instructor cell that is neither
\* missing nor a string.
RowCannotBeBuilt(row) ==
  /\ HasTargetRoom(row)
  /\ WeekdaysOfRow(row) # <<>>
  /\ \/ row_get(row, title_col).k \in {"num", "time"}
     \/ row_get(row, instructor_col).k \in {"num", "time"}

\* The invocation has ended and no document came back with a count of 0.
Aborted == result.doc_buffer = PyNone /\ result.count = 0

NoDownload == pc = "shown" => ui = "error"

\* Every stage of a returned document ran to its end.
AllStagesRan ==
  /\ i = Len(df) + 1
  /\ Len(entries) = RecordsDue(Len(df))
  /\ Len(chart_rows) = Len(WeekdaysPresent)
  /\ Len(result.doc_buffer.rows) = Len(chart_rows)
  /\ result.count = Len(entries)

\* C5 as stated: a name ending in neither .csv nor .xlsx, a missing required
\* column, or an exception in the row loop aborts the invocation with no
\* document and a count of 0, and no download is offered; a document is
\* returned only when every stage ran to completion.
C5_AbortAsClaimed ==
  pc \in {"returned", "shown"} =>
    /\ (\/ ~NameSupported
        \/ ~(RequiredColumns \subseteq uploaded_file.columns)
        \/ \E n \in 1..Len(df) : RowCannotBeBuilt(df[n]))
         => Aborted /\ NoDownload
    /\ result.doc_buffer # PyNone => AllStagesRan

\* C5 for the columns the loader indexes (course number, title, instructor,
\* seats remaining): their absence, an unsupported name or a raising row
\* aborts the invocation, and a download is offered exactly for a document.
C5_Abort ==
  pc \in {"returned", "shown"} =>
    /\ (\/ ~NameSupported
        \/ ~(LoaderColumns \subseteq uploaded_file.columns)
        \/ \E n \in 1..Len(df) : RowCannotBeBuilt(df[n]))
         => Aborted /\ NoDownload
    /\ result.doc_buffer # PyNone => AllStagesRan
    /\ pc = "shown" => (ui = "download") = (result.doc_buffer # PyNone)

\* A row raised after earlier rows had given records, and the caller showed
\* the error instead of a download.
C5_Witness ==
  /\ pc = "shown"
  /\ failure = "row"
  /\ entries # <<>>
  /\ Aborted
  /\ ui = "error"

(***************************************************************************)
(* Properties of the normalizers, checked under SpecNorm.                  *)
(***************************************************************************)
\* C6: no normalizer raises, whatever the cell holds.
C6_NeverRaises == fn # "none" => res.k # "raise"

\* The 24-hour hour of hour h with period p: 12 AM is 0, 12 PM stays 12, any
\* other PM hour has 12 added.
Hour24(h, p) ==
  IF p = "AM" /\ h = 12 THEN 0
  ELSE IF p = "PM" /\ h # 12 THEN h + 12
  ELSE h

\* Cell values that are empty or that no time can be read from.
Unparseable ==
  {NaN, PyNone}
    \cup {Num(n, f) : n \in {0, 7, 227}, f \in BOOLEAN}
    \cup {Str(s) : s \in {"", " ", "9:05", "9 AM", "9:05:00 AM", "nine:05 AM",
                          "9:five AM", "AM 9:05", "MWF", "XYZ", "TBA", "Jane Smith"}}

\* What parse_time is to return for the sampled clock strings with AM or PM,
\* the structured times and the unparseable values.
ParsedAsClaimed ==
  /\ \A h \in 0..MaxHour, m \in MinuteSamples, p \in {"AM", "PM"} :
       cell = Str(ClockString(h, m, p)) => res = PyInt(Hour24(h, p) * 60 + m)
  /\ cell.k = "time" => res = PyInt(cell.h * 60 + cell.m)
  /\ cell \in Unparseable => res = PyNone
  /\ cell = Str("9:05 AM") => res = PyInt(545)
  /\ cell = Str("12:30 PM") => res = PyInt(750)

\* C7 as stated: the conversion above, and every non-null result lies in
\* 0..1439.
C7_ParseTimeAsClaimed ==
  fn = "parse_time" =>
    /\ ParsedAsClaimed
    /\ res # PyNone => res.n \in 0..1439

\* C7 for in-range clocks: the results that lie in 0..1439 are those of a
\* structured time and of a string whose hour is in 0..12 and whose minute is
\* in 0..59.
C7_ParseTime ==
  fn = "parse_time" =>
    /\ ParsedAsClaimed
    /\ cell.k = "time" => res.n \in 0..1439
    /\ \A h \in 0..12, m \in MinuteSamples \cap (0..59), p \in PeriodSamples :
         cell = Str(ClockString(h, m, p)) => res # PyNone /\ res.n \in 0..1439

\* parse_time applied to "12:30 PM".
C7_Witness == fn = "parse_time" /\ cell = Str("12:30 PM") /\ res = PyInt(750)

\* C8: is_before_noon is true exactly when the 24-hour hour is below 12:
\* 12:00 PM is not morning, 12:xx AM is, and an empty or unparseable value
\* never is.
C8_BeforeNoon ==
  fn = "is_before_noon" =>
    /\ \A h \in 0..MaxHour, m \in MinuteSamples, p \in {"AM", "PM"} :
         cell = Str(ClockString(h, m, p)) => res = PyBool(Hour24(h, p) < 12)
    /\ cell.k = "time" => res = PyBool(cell.h < 12)
    /\ cell \in Unparseable => res = PyBool(FALSE)
    /\ cell = Str("12:00 PM") => res = PyBool(FALSE)
    /\ \A m \in MinuteSamples : cell = Str(ClockString(12, m, "AM")) => res = PyBool(TRUE)

\* is_before_noon applied to "12:00 PM".
C8_Witness == fn = "is_before_noon" /\ cell = Str("12:00 PM") /\ res = PyBool(FALSE)

\* C10: is_before_noon(v) is true if and only if parse_time(v) is non-null
\* and below 720, for every raw start value v.
C10_ClassifierAgreesWithSorter ==
  fn = "is_before_noon" =>
    (res = PyBool(TRUE)) = (parse_time(cell) # PyNone /\ parse_time(cell).n < 720)

====
